---- MODULE Spec2Model ----
(***************************************************************************)
(* Model of google_trans2: the GoogleTranslate client (translate.py) and   *)
(* the classified error GoogleTranslateError (exceptions.py).              *)
(*                                                                         *)
(* One call of translate or detect is followed from its guards, through    *)
(* the request it builds and posts, through the streamed response lines,   *)
(* to the value it returns or the exception it raises.                     *)
(*                                                                         *)
(* Strings that the code transforms (strip, lower, +=) are sequences of    *)
(* one-character strings; strings it only passes along (pronunciations,    *)
(* RPC ids, exception names) are TLA+ strings.  The input text is modelled *)
(* by its length, the only thing the guards read.                          *)
(***************************************************************************)
EXTENDS Integers, Sequences, FiniteSets, TLC

VARIABLES
    pc,           \* "idle", "post", "iter_lines", "done": position of the call
    op,           \* "translate" or "detect"
    textLen,      \* len(text)
    source_lang,  \* argument of translate
    target_lang,  \* argument of translate
    pronounce,    \* argument of translate
    f_req,        \* the request payload built by _f_req_data, or NoReq
    sent,         \* number of HTTP requests posted by the call
    transport,    \* what session.post did: "none", "response" or an exception
    status,       \* r.status_code, 0 while there is no response
    line_rpc,     \* the RPC id carried by the line read last, "" for none
    response,     \* the line decoded last (only a selected line is), or NoLine
    nread,        \* number of response lines read
    selected,     \* the line read last contained the scanned marker
    fellThrough,  \* a selected line matched neither len == 1 nor len == 2
    exit,         \* where the call ended: "guard", "post", "line", ...
    outcome       \* what the call gave its caller

vars == << pc, op, textLen, source_lang, target_lang, pronounce, f_req, sent,
           transport, status, line_rpc, response, nread, selected, fellThrough,
           exit, outcome >>

-----------------------------------------------------------------------------
(* Bounds of the model *)

MaxLines == 2     \* response lines read in one call
MaxFrags == 2     \* sentence fragments in a single-sentence payload

-----------------------------------------------------------------------------
(* The size limit of translate and detect, and the static data of constants.py *)

TextLimit == 5000

AUTO == <<"a", "u", "t", "o">>

\* code -> display name
LANGUAGES ==
    (<<"e", "n">> :> "english") @@ (<<"e", "s">> :> "spanish") @@
    (<<"f", "r">> :> "french")

\* the candidate RPC ids the request builder chooses from
GOOGLE_TTS_RPC == << "rpcA", "rpcB" >>

Range(f) == { f[i] : i \in DOMAIN f }

-----------------------------------------------------------------------------
(* Python values and call outcomes *)

None == "None"    \* an absent pronunciation

PyNone == [t |-> "None"]
PyStr(s) == [t |-> "str", s |-> s]
PyList(items) == [t |-> "list", items |-> items]
PyTriple(first, src, tgt) == [t |-> "list3", first |-> first, src |-> src, tgt |-> tgt]
PyDict(k, v) == [t |-> "dict", key |-> k, val |-> v]

NoOutcome == [kind |-> "none"]
Returns(v) == [kind |-> "return", value |-> v]
Raises(exc, msg) == [kind |-> "raise", exc |-> exc, msg |-> msg]

NoMsg == [premise |-> "", status |-> 0, cause |-> ""]
NoReq == [rpc |-> "", src |-> <<>>, tgt |-> <<>>]
NoLine == [rpc |-> "", kind |-> "none"]

-----------------------------------------------------------------------------
(* exceptions.py *)

\* infer_msg without its status >= 500 branch
infer_msg_no_5xx(st) ==
    IF st = 0
    THEN [premise |-> "Failed to connect", status |-> 0, cause |-> "timeout"]
    ELSE [premise |-> "from TTS API", status |-> st,
          cause |-> IF st = 403 THEN "Bad token or upstream API changes"
                    ELSE "Unknown"]

\* GoogleTranslateError.infer_msg(tts, rsp), rsp given by its status
\* (0: rsp is None).  GoogleTranslate has no lang_check attribute, so the
\* status == 200 branch ends in an AttributeError.
infer_msg(st) ==
    IF st = 0
    THEN [premise |-> "Failed to connect", status |-> 0, cause |-> "timeout"]
    ELSE [premise |-> "from TTS API", status |-> st,
          cause |-> IF st = 403 THEN "Bad token or upstream API changes"
                    ELSE IF st = 200 THEN "AttributeError"
                    ELSE IF st >= 500 THEN "Upstream API error. Try again later."
                    ELSE "Unknown"]

\* GoogleTranslateError(tts=self, response=r) / GoogleTranslateError(tts=self)
GoogleTranslateError(st) == Raises("GoogleTranslateError", infer_msg(st))

-----------------------------------------------------------------------------
(* str.strip, str.lower, and the += loop of translate *)

IsSpace(c) == c = " "

RECURSIVE lstrip(_)
lstrip(s) == IF s # <<>> /\ IsSpace(Head(s)) THEN lstrip(Tail(s)) ELSE s

RECURSIVE rstrip(_)
rstrip(s) ==
    IF s # <<>> /\ IsSpace(s[Len(s)]) THEN rstrip(SubSeq(s, 1, Len(s) - 1)) ELSE s

\* strip that trims the left end only
strip_left_only(s) == lstrip(s)

strip(s) == rstrip(lstrip(s))

LowerChar(c) ==
    CASE c = "E" -> "e" [] c = "N" -> "n" [] c = "S" -> "s"
      [] c = "Z" -> "z" [] c = "H" -> "h" [] OTHER -> c

lower(s) == [i \in 1..Len(s) |-> LowerChar(s[i])]

\* translate_text = ""; for sentence in sentences:
\*     translate_text += sentence[0].strip() + " "
RECURSIVE join_sentences(_, _)
join_sentences(sentences, translate_text) ==
    IF sentences = <<>> THEN translate_text
    ELSE join_sentences(Tail(sentences),
                        translate_text \o strip(Head(sentences)[1]) \o <<" ">>)

-----------------------------------------------------------------------------
(* GoogleTranslate: request building *)

\* _process_lang without the coercion to "auto"
_process_lang_unchecked(lang) == lang

_process_lang(lang) ==
    IF lang = AUTO THEN lang
    ELSE IF lang \in DOMAIN LANGUAGES THEN lang
    ELSE AUTO

\* _f_req_data: the payload for the id that random.choice(GOOGLE_TTS_RPC) gave
_f_req_data(rpc, src_lang, tgt_lang) == [rpc |-> rpc, src |-> src_lang, tgt |-> tgt_lang]

\* the marker the response lines are scanned for: GOOGLE_TTS_RPC[0] of Python
ScanMarker == GOOGLE_TTS_RPC[1]

\* GOOGLE_TTS_RPC[0] in decoded_line
Contains(l, marker) == l.rpc = marker

\* the size guard with > for >=
TooLong_strict(n) == n > TextLimit

TooLong(n) == n >= TextLimit

-----------------------------------------------------------------------------
(* GoogleTranslate.translate: decoding a selected line *)

\* the url-only branch reading the pronunciations like the other branches
url_only_with_pron(l, pron) ==
    LET sentences == l.arr[1].p0
    IN  IF pron THEN Returns(PyTriple(PyStr(sentences), l.src, l.arr[1].p1))
        ELSE Returns(PyStr(sentences))

\* len(response) == 1, len(response[0]) <= 5: "only url"
url_only(l, pron) ==
    LET sentences == l.arr[1].p0
    IN  IF pron THEN Returns(PyTriple(PyStr(sentences), None, None))
        ELSE Returns(PyStr(sentences))

\* len(response) == 1, len(response[0]) > 5
single_sentence(l, pron) ==
    LET sentences == l.arr[1].p5
        translate_text == join_sentences(sentences, <<>>)
    IN  IF ~pron THEN Returns(PyStr(translate_text))
        ELSE Returns(PyTriple(PyStr(translate_text), l.src, l.arr[1].p1))

\* the two segments collected in reverse order
two_segments_reversed(l, pron) ==
    LET sentences == [i \in 1..2 |-> l.arr[3 - i].p0]
    IN  IF ~pron THEN Returns(PyList(sentences))
        ELSE Returns(PyTriple(PyList(sentences), l.src, l.arr[1].p1))

\* len(response) == 2
two_segments(l, pron) ==
    LET sentences == [i \in 1..2 |-> l.arr[i].p0]
    IN  IF ~pron THEN Returns(PyList(sentences))
        ELSE Returns(PyTriple(PyList(sentences), l.src, l.arr[1].p1))

\* an else branch that raises for an unknown shape
other_length_raises(l, pron) == Raises("ParseError", NoMsg)

\* neither branch of the if/elif is taken: nothing returns, nothing raises
other_length(l, pron) == NoOutcome

translate_line(l, pron) ==
    IF l.kind = "malformed" THEN Raises("ParseError", NoMsg)
    ELSE IF Len(l.arr) = 1
         THEN IF l.arr[1].n > 5 THEN single_sentence(l, pron) ELSE url_only(l, pron)
    ELSE IF Len(l.arr) = 2 THEN two_segments(l, pron)
    ELSE other_length(l, pron)

\* detect with the table lookup failure turned into a None result
detect_line_swallow(l) ==
    IF l.kind = "malformed" THEN Raises("ParseError", NoMsg)
    ELSE LET detected_lang == lower(l.code)
         IN  IF detected_lang \in DOMAIN LANGUAGES
             THEN Returns(PyDict(detected_lang, LANGUAGES[detected_lang]))
             ELSE Returns(PyNone)

\* GoogleTranslate.detect: decoding a selected line
detect_line(l) ==
    IF l.kind = "malformed" THEN Raises("ParseError", NoMsg)
    ELSE LET detected_lang == lower(l.code)
         IN  IF detected_lang \in DOMAIN LANGUAGES
             THEN Returns(PyDict(detected_lang, LANGUAGES[detected_lang]))
             ELSE Raises("KeyError", NoMsg)

-----------------------------------------------------------------------------
(* The transport (requests) and the except clauses *)

RequestExceptions == {"ConnectTimeout", "ReadTimeout", "ConnectionError",
                      "ChunkedEncodingError", "HTTPError"}

\* r.raise_for_status() raises HTTPError for the 4xx and 5xx statuses only
raise_for_status(st) == st >= 400 /\ st < 600

TransportMsg(exc) == [premise |-> "transport", status |-> 0, cause |-> exc]

\* translate without its ConnectTimeout clause
translate_except_no_reraise(exc, st) ==
    IF exc = "HTTPError" THEN GoogleTranslateError(st)
    ELSE IF exc \in RequestExceptions THEN GoogleTranslateError(0)
    ELSE Raises(exc, NoMsg)

\* the except clauses of translate, in their order
translate_except(exc, st) ==
    IF exc = "ConnectTimeout" THEN Raises(exc, TransportMsg(exc))
    ELSE IF exc = "HTTPError" THEN GoogleTranslateError(st)
    ELSE IF exc \in RequestExceptions THEN GoogleTranslateError(0)
    ELSE Raises(exc, NoMsg)

\* the except clauses of detect, in their order
detect_except(exc, st) ==
    IF exc = "HTTPError" THEN GoogleTranslateError(st)
    ELSE IF exc \in RequestExceptions THEN GoogleTranslateError(0)
    ELSE Raises(exc, NoMsg)

Handle(o, exc, st) ==
    IF o = "translate" THEN translate_except(exc, st) ELSE detect_except(exc, st)

-----------------------------------------------------------------------------
(* Inputs *)

TextLens == {0, 1, TextLimit - 1, TextLimit, TextLimit + 1}

Langs == {AUTO, <<"e", "n">>, <<"E", "N">>}

Statuses == {200, 304, 403, 404, 503}

Prons == {None, "pron"}

Pieces == {<<" ", "a", " ">>, <<"a", " ", "b">>, <<" ">>}

Codes == {<<"E", "N">>, <<"e", "n">>, <<"E", "s">>, <<"z", "z">>, <<"Z", "H">>}

\* position 5 of a single-sentence element: its fragments, at least one;
\* a fragment is a list whose first element is the translated piece
FragLists == UNION {[1..k -> {<<p>> : p \in Pieces}] : k \in 1..MaxFrags}

Elem(n, p0, p1, p5) == [n |-> n, p0 |-> p0, p1 |-> p1, p5 |-> p5]

TLine(rpc, kind, src, arr) == [rpc |-> rpc, kind |-> kind, src |-> src, arr |-> arr]

SentenceArrs == {<<Elem(6, <<"a">>, p1, fs)>> : p1 \in Prons, fs \in FragLists}

UrlArrs == {<<Elem(n, p0, None, <<>>)>> : n \in {1, 5}, p0 \in Pieces \cup {<<"a">>}}

PairArrs == {<<Elem(6, a, p1, <<>>), Elem(6, b, None, <<>>)>> :
                a \in {<<"a">>, <<"b">>}, b \in {<<"a">>, <<"b">>}, p1 \in Prons}

OtherArrs == {<<>>, <<Elem(6, <<"a">>, None, <<>>), Elem(6, <<"a">>, None, <<>>),
                     Elem(6, <<"a">>, None, <<>>)>>}

\* the decodable bodies of a payload line of translate
TranslateBodies ==
    {TLine("", "payload", src, arr) :
        src \in Prons, arr \in SentenceArrs \cup UrlArrs \cup PairArrs \cup OtherArrs}
    \cup {TLine("", "malformed", None, <<>>)}

\* the lines a response to request rq may hold: payload lines carrying the
\* RPC id of the request, and lines carrying no RPC id
TranslateLines(rq) ==
    {[b EXCEPT !.rpc = rq.rpc] : b \in TranslateBodies}
    \cup {TLine("", "noise", None, <<>>)}

DLine(rpc, kind, code) == [rpc |-> rpc, kind |-> kind, code |-> code]

DetectLines(rq) ==
    {DLine(rq.rpc, "payload", c) : c \in Codes}
    \cup {DLine(rq.rpc, "malformed", <<>>), DLine("", "noise", <<>>)}

-----------------------------------------------------------------------------
(* The state machine *)

Init ==
    /\ pc = "idle"
    /\ op = "translate"
    /\ textLen = 0
    /\ source_lang = AUTO
    /\ target_lang = AUTO
    /\ pronounce = FALSE
    /\ f_req = NoReq
    /\ sent = 0
    /\ transport = "none"
    /\ status = 0
    /\ line_rpc = ""
    /\ response = NoLine
    /\ nread = 0
    /\ selected = FALSE
    /\ fellThrough = FALSE
    /\ exit = "none"
    /\ outcome = NoOutcome

\* translate, lines 99-114: the guards, the request, the post
translate(n, src, tgt, pron) ==
    /\ pc = "idle"
    /\ op' = "translate"
    /\ textLen' = n
    /\ source_lang' = src
    /\ target_lang' = tgt
    /\ pronounce' = pron
    /\ IF TooLong(n)
       THEN /\ pc' = "done" /\ exit' = "guard" /\ outcome' = Returns(PyNone)
            /\ UNCHANGED << f_req, sent >>
       ELSE IF n = 0
       THEN /\ pc' = "done" /\ exit' = "guard" /\ outcome' = Returns(PyStr(<<>>))
            /\ UNCHANGED << f_req, sent >>
       ELSE /\ \E rpc \in Range(GOOGLE_TTS_RPC) :
                 f_req' = _f_req_data(rpc, _process_lang(src), _process_lang(tgt))
            /\ sent' = sent + 1
            /\ pc' = "post"
            /\ UNCHANGED << exit, outcome >>
    /\ UNCHANGED << transport, status, line_rpc, response, nread, selected,
                    fellThrough >>

\* detect, lines 180-191
detect(n) ==
    /\ pc = "idle"
    /\ op' = "detect"
    /\ textLen' = n
    /\ IF TooLong(n) \/ n = 0
       THEN /\ pc' = "done" /\ exit' = "guard" /\ outcome' = Returns(PyNone)
            /\ UNCHANGED << f_req, sent >>
       ELSE /\ \E rpc \in Range(GOOGLE_TTS_RPC) : f_req' = _f_req_data(rpc, AUTO, AUTO)
            /\ sent' = sent + 1
            /\ pc' = "post"
            /\ UNCHANGED << exit, outcome >>
    /\ UNCHANGED << source_lang, target_lang, pronounce, transport, status, line_rpc,
                    response, nread, selected, fellThrough >>

\* session.post returns a response
PostResponds(st) ==
    /\ pc = "post"
    /\ transport' = "response"
    /\ status' = st
    /\ pc' = "iter_lines"
    /\ UNCHANGED << op, textLen, source_lang, target_lang, pronounce, f_req, sent,
                    line_rpc, response, nread, selected, fellThrough, exit, outcome >>

\* session.post raises: no response object exists
PostRaises(exc) ==
    /\ pc = "post"
    /\ transport' = exc
    /\ pc' = "done"
    /\ exit' = "post"
    /\ outcome' = Handle(op, exc, 0)
    /\ UNCHANGED << op, textLen, source_lang, target_lang, pronounce, f_req, sent,
                    status, line_rpc, response, nread, selected, fellThrough >>

\* one turn of "for line in r.iter_lines(...)"
IterLine(l) ==
    /\ pc = "iter_lines"
    /\ nread < MaxLines
    /\ line_rpc' = l.rpc
    /\ response' = IF Contains(l, ScanMarker) THEN l ELSE response
    /\ nread' = nread + 1
    /\ LET sel == Contains(l, ScanMarker)
           res == IF ~sel THEN NoOutcome
                  ELSE IF op = "translate" THEN translate_line(l, pronounce)
                  ELSE detect_line(l)
       IN  /\ selected' = sel
           /\ IF res = NoOutcome
              THEN /\ fellThrough' = (fellThrough \/ sel)
                   /\ UNCHANGED << pc, exit, outcome >>
              ELSE /\ pc' = "done"
                   /\ exit' = "line"
                   /\ outcome' = IF res.kind = "raise" THEN Handle(op, res.exc, status)
                                 ELSE res
                   /\ UNCHANGED fellThrough
    /\ UNCHANGED << op, textLen, source_lang, target_lang, pronounce, f_req, sent,
                    transport, status >>

\* the stream breaks while the lines are read
IterRaises ==
    /\ pc = "iter_lines"
    /\ pc' = "done"
    /\ exit' = "iter_lines"
    /\ outcome' = Handle(op, "ChunkedEncodingError", status)
    /\ UNCHANGED << op, textLen, source_lang, target_lang, pronounce, f_req, sent,
                    transport, status, line_rpc, response, nread, selected,
                    fellThrough >>

\* the lines are exhausted: r.raise_for_status(), then the implicit return None
StatusCheck ==
    /\ pc = "iter_lines"
    /\ pc' = "done"
    /\ exit' = "raise_for_status"
    /\ outcome' = IF raise_for_status(status) THEN Handle(op, "HTTPError", status)
                  ELSE Returns(PyNone)
    /\ UNCHANGED << op, textLen, source_lang, target_lang, pronounce, f_req, sent,
                    transport, status, line_rpc, response, nread, selected,
                    fellThrough >>

\* the caller has the outcome; the client is ready for the next call
Return ==
    /\ pc = "done"
    /\ pc' = "idle"
    /\ op' = "translate"
    /\ textLen' = 0
    /\ source_lang' = AUTO
    /\ target_lang' = AUTO
    /\ pronounce' = FALSE
    /\ f_req' = NoReq
    /\ sent' = 0
    /\ transport' = "none"
    /\ status' = 0
    /\ line_rpc' = ""
    /\ response' = NoLine
    /\ nread' = 0
    /\ selected' = FALSE
    /\ fellThrough' = FALSE
    /\ exit' = "none"
    /\ outcome' = NoOutcome

Next ==
    \/ \E n \in TextLens, src \in Langs, tgt \in Langs, pron \in BOOLEAN :
          translate(n, src, tgt, pron)
    \/ \E n \in TextLens : detect(n)
    \/ \E st \in Statuses : PostResponds(st)
    \/ \E exc \in {"ConnectTimeout", "ReadTimeout", "ConnectionError"} : PostRaises(exc)
    \/ \E l \in (IF op = "translate" THEN TranslateLines(f_req) ELSE DetectLines(f_req)) :
          IterLine(l)
    \/ IterRaises
    \/ StatusCheck
    \/ Return

Spec == Init /\ [][Next]_vars

-----------------------------------------------------------------------------
(* Properties *)

Called == pc # "idle"
Done == pc = "done"

Classified(o) == o.kind = "raise" /\ o.exc = "GoogleTranslateError"

NonSpace(s) == {i \in 1..Len(s) : s[i] # " "}
FirstNonSpace(s) == CHOOSE i \in NonSpace(s) : \A j \in NonSpace(s) : i <= j
LastNonSpace(s) == CHOOSE i \in NonSpace(s) : \A j \in NonSpace(s) : j <= i
TrimLen(s) == IF NonSpace(s) = {} THEN 0 ELSE LastNonSpace(s) - FirstNonSpace(s) + 1

\* where the i-th piece starts in the joined text
RECURSIVE Offset(_, _)
Offset(frags, i) ==
    IF i = 1 THEN 0 ELSE Offset(frags, i - 1) + TrimLen(frags[i - 1][1]) + 1

\* t is, fragment after fragment, the trimmed first element and one space
IsJoinOf(t, frags) ==
    /\ Len(t) = Offset(frags, Len(frags) + 1)
    /\ \A i \in 1..Len(frags) :
          LET s == frags[i][1]
              o == Offset(frags, i)
              k == TrimLen(s)
          IN  /\ \A j \in 1..k : t[o + j] = s[FirstNonSpace(s) + j - 1]
              /\ t[o + k + 1] = " "

LineEnded == Done /\ exit = "line" /\ response.kind = "payload"

SingleSentenceCase ==
    LineEnded /\ op = "translate" /\ Len(response.arr) = 1 /\ response.arr[1].n > 5

UrlOnlyCase ==
    LineEnded /\ op = "translate" /\ Len(response.arr) = 1 /\ response.arr[1].n <= 5

\* C3: a translation array of length 1 whose element has 5 or fewer
\* positions gives position 0 of the element, bare when pronounce is false
\* and as [string, None, None] when pronounce is true, whatever
\* pronunciation the payload envelope holds.
C3_UrlOnly ==
    UrlOnlyCase =>
        outcome = IF pronounce
                  THEN Returns(PyTriple(PyStr(response.arr[1].p0), None, None))
                  ELSE Returns(PyStr(response.arr[1].p0))

C3_Witness == UrlOnlyCase /\ pronounce /\ response.src = "pron" /\ response.arr[1].n = 5

TwoSegmentsCase == LineEnded /\ op = "translate" /\ Len(response.arr) = 2

\* C4: a translation array of length 2 gives the sequence of position 0 of
\* its two elements, in their order; with pronounce it is the first element
\* of a triple followed by the source and target pronunciations.
C4_TwoSegments ==
    TwoSegmentsCase =>
        LET seq == PyList(<< response.arr[1].p0, response.arr[2].p0 >>)
        IN  outcome = IF pronounce
                      THEN Returns(PyTriple(seq, response.src, response.arr[1].p1))
                      ELSE Returns(seq)

C4_Witness ==
    /\ TwoSegmentsCase
    /\ pronounce
    /\ response.arr[1].p0 = <<"a">> /\ response.arr[2].p0 = <<"b">>
    /\ outcome.value.first.items = << <<"a">>, <<"b">> >>
    /\ outcome.value.tgt = "pron"

\* upper-case letters and their lower-case forms
CaseFold == {<<"E", "e">>, <<"N", "n">>, <<"S", "s">>, <<"Z", "z">>, <<"H", "h">>}

\* k is c lower-cased
IsLowerOf(k, c) ==
    /\ Len(k) = Len(c)
    /\ \A i \in 1..Len(c) :
          IF \E f \in CaseFold : f[1] = c[i]
          THEN <<c[i], k[i]>> \in CaseFold
          ELSE k[i] = c[i]

DetectCase == LineEnded /\ op = "detect"

\* C5: detect on a line carrying code c returns {lower(c): name of lower(c)}
\* ("EN" gives {"en": "english"}); when lower(c) is no key of the table the
\* lookup failure reaches the caller: no None result, no classified error.
C5_Detect ==
    DetectCase =>
        LET c == response.code
            keys == {k \in DOMAIN LANGUAGES : IsLowerOf(k, c)}
        IN  /\ keys # {} =>
                 /\ outcome.kind = "return"
                 /\ outcome.value.t = "dict"
                 /\ outcome.value.key \in keys
                 /\ outcome.value.val = LANGUAGES[outcome.value.key]
            /\ keys = {} => outcome.kind = "raise" /\ outcome.exc = "KeyError"
            /\ c = <<"E", "N">> => outcome = Returns(PyDict(<<"e", "n">>, "english"))

C5_Witness ==
    /\ DetectCase
    /\ response.code = <<"Z", "H">>
    /\ outcome.kind = "raise" /\ outcome.exc = "KeyError"

\* no line of the response contained the scanned marker
NoMarkerCase == Done /\ exit = "raise_for_status" /\ response = NoLine

CauseOf(st) ==
    IF st = 403 THEN "Bad token or upstream API changes"
    ELSE IF st >= 500 THEN "Upstream API error. Try again later."
    ELSE "Unknown"

\* C6 as stated: a response without a marker line and with a non-2xx status
\* raises the classified error whose cause is chosen by the status.
C6_Original ==
    (NoMarkerCase /\ ~(status >= 200 /\ status <= 299)) =>
        /\ Classified(outcome)
        /\ outcome.msg.cause = CauseOf(status)

\* C6, amended: a response without a marker line raises the classified
\* error, with the cause chosen by the status, when the status is a 4xx or
\* 5xx status; for every other status nothing is raised and None returned.
C6_ErrorStatus ==
    NoMarkerCase =>
        IF status >= 400 /\ status <= 599
        THEN /\ Classified(outcome)
             /\ outcome.msg.status = status
             /\ outcome.msg.cause = CauseOf(status)
        ELSE outcome = Returns(PyNone)

C6_Witness == NoMarkerCase /\ op = "detect" /\ status = 503 /\ Classified(outcome)

TimeoutCase == Done /\ exit = "post" /\ transport = "ConnectTimeout"

TimeoutMsg(m) == m.premise = "Failed to connect" /\ m.cause = "timeout"

\* C7 as stated: on a connect timeout translate and detect both raise the
\* classified error built without a response.
C7_Original == TimeoutCase => Classified(outcome) /\ TimeoutMsg(outcome.msg)

\* C7, amended: on a connect timeout detect raises the classified error
\* built without a response ("Failed to connect. Probable cause: timeout");
\* translate re-raises the transport's ConnectTimeout itself, unclassified.
C7_ConnectTimeout ==
    TimeoutCase =>
        /\ sent = 1 /\ status = 0
        /\ IF op = "detect"
           THEN Classified(outcome) /\ TimeoutMsg(outcome.msg)
           ELSE outcome.kind = "raise" /\ outcome.exc = "ConnectTimeout"

C7_Witness == TimeoutCase /\ op = "translate" /\ outcome.exc = "ConnectTimeout"

\* C8: the language code in the payload is the given code when it is "auto"
\* or a key of the table and "auto" otherwise; an invalid code neither
\* raises nor stops the request from being sent.
C8_LangCoercion ==
    (Called /\ op = "translate" /\ textLen > 0 /\ textLen < TextLimit) =>
        /\ sent = 1
        /\ exit # "guard"
        /\ f_req.src = IF source_lang = AUTO \/ source_lang \in DOMAIN LANGUAGES
                       THEN source_lang ELSE AUTO
        /\ f_req.tgt = IF target_lang = AUTO \/ target_lang \in DOMAIN LANGUAGES
                       THEN target_lang ELSE AUTO

C8_Witness ==
    /\ Done /\ op = "translate" /\ exit = "line" /\ outcome.kind = "return"
    /\ source_lang = <<"E", "N">> /\ f_req.src = AUTO
    /\ target_lang = <<"e", "n">> /\ f_req.tgt = <<"e", "n">>

\* C9: the marker the lines are scanned for is the RPC id placed in the
\* call's request, whichever id of the candidate set was chosen; a line
\* carrying the request's id is always selected.
C9_Original ==
    /\ sent = 1 => ScanMarker = f_req.rpc
    /\ (sent = 1 /\ nread > 0 /\ line_rpc = f_req.rpc) => selected

OtherLength(l) == l.kind = "payload" /\ Len(l.arr) # 1 /\ Len(l.arr) # 2

\* C10 as stated: a first matching line whose translation array has a
\* length other than 1 or 2 ends the call with a decoding failure.
C10_Original ==
    (op = "translate" /\ fellThrough) =>
        Done /\ exit = "line" /\ outcome.kind = "raise" /\ outcome.exc = "ParseError"

\* C10, amended: a matching line whose translation array has a length other
\* than 1 or 2 raises nothing and ends nothing: the lines are read on, a
\* later matching line of length 1 or 2 gives the result (a malformed one
\* the decoding failure), and when the lines run out the status check
\* decides: the classified error for a 4xx or 5xx status, None otherwise.
C10_FallsThrough ==
    /\ (Called /\ op = "translate" /\ OtherLength(response)) =>
          /\ fellThrough
          /\ exit # "line"
          /\ pc = "iter_lines" => outcome = NoOutcome
          /\ exit = "raise_for_status" =>
                IF status >= 400 /\ status <= 599
                THEN Classified(outcome) /\ outcome.msg.status = status
                ELSE outcome = Returns(PyNone)
    /\ (Done /\ op = "translate" /\ fellThrough /\ exit = "line") =>
          IF response.kind = "malformed"
          THEN outcome.kind = "raise" /\ outcome.exc = "ParseError"
          ELSE /\ Len(response.arr) \in {1, 2}
               /\ outcome.kind = "return"
               /\ outcome.value # PyNone

C10_Witness ==
    /\ Done /\ op = "translate" /\ fellThrough /\ exit = "line"
    /\ outcome.kind = "return" /\ outcome.value.t = "list"

====
